---- MODULE Spec2Model ----
(***************************************************************************)
(* A model of pyract's reconciliation engine (src/pyract/view.py): the     *)
(* keyed tree differ (render_tree / render_treelist), the two Instance     *)
(* variants (GtkComponent, Component) and the Observable notification      *)
(* that drives re-rendering (src/pyract/model.py).                         *)
(*                                                                         *)
(* Python objects are modelled by value:                                   *)
(*   - a prop value is a tagged record (NoneV, IntV, StrV, BoolV, ObsV,    *)
(*     FnV, ListV);                                                        *)
(*   - a dict is a sequence of [k, v] entries with distinct keys, in       *)
(*     insertion order;                                                    *)
(*   - a Node is [type, props, instance]; instance 0 is None;              *)
(*   - an instance is an index into insts, an Observable an index into obs.*)
(* Every synchronous call chain of the code is one action: the operators   *)
(* below thread a world record w = [insts, obs, log, exc, nh] through the  *)
(* calls in the order the code makes them.  log is the sequence of         *)
(* instance operations made by the current action.                         *)
(***************************************************************************)
EXTENDS Integers, Sequences, FiniteSets, TLC

\* Number of top-level events (assignments to an ObservableValue) explored.
MaxSteps == 3

(***************************************************************************)
(* Python values                                                           *)
(***************************************************************************)
NoneV == [t |-> "none"]
IntV(n) == [t |-> "int", n |-> n]
StrV(s) == [t |-> "str", s |-> s]
BoolV(b) == [t |-> "bool", b |-> b]
ObsV(o) == [t |-> "obs", o |-> o]
FnV(f) == [t |-> "fn", f |-> f]
ListV(items) == [t |-> "list", items |-> items]

\* bool(v)
Truthy(v) ==
  CASE v.t = "none" -> FALSE
    [] v.t = "int" -> v.n # 0
    [] v.t = "str" -> v.s # ""
    [] v.t = "bool" -> v.b
    [] v.t = "list" -> Len(v.items) > 0
    [] OTHER -> TRUE

\* isinstance(v, Observable)
IsObservable(v) == v.t = "obs"

\* Node(type_, **props); instance None is 0
Node(type_, props) == [type |-> type_, props |-> props, instance |-> 0]

\* old or (None, {}) for old = None
NoNode == [type |-> "None", props |-> <<>>, instance |-> 0]

\* one dict item
Entry(k, v) == [k |-> k, v |-> v]

\* k in d
Has(d, k) == \E i \in 1..Len(d) : d[i].k = k

\* position of key k in d (k in d)
IndexOf(d, k) == CHOOSE i \in 1..Len(d) : d[i].k = k

\* d.get(k, default)
DictGet(d, k, default) == IF Has(d, k) THEN d[IndexOf(d, k)].v ELSE default

\* d[k] = v: an existing key keeps its position, a new key goes last
DictSet(d, k, v) ==
  IF Has(d, k)
  THEN SubSeq(d, 1, IndexOf(d, k) - 1) \o <<Entry(k, v)>>
         \o SubSeq(d, IndexOf(d, k) + 1, Len(d))
  ELSE Append(d, Entry(k, v))

(***************************************************************************)
(* == on prop values.  A Node is a tuple (type_, kwargs): tuple equality   *)
(* compares type and the kwargs dict (order-insensitive), recursively, and *)
(* never the mutable instance attribute.  True == 1 and False == 0.        *)
(***************************************************************************)
RECURSIVE EqForm(_)
EqForm(v) ==
  CASE v.t = "list" ->
         [t |-> "list",
          items |-> [i \in 1..Len(v.items) |->
                       [type |-> v.items[i].type,
                        props |-> {[k |-> e.k, v |-> EqForm(e.v)] :
                                     e \in {v.items[i].props[j] :
                                              j \in 1..Len(v.items[i].props)}}]]]
    [] v.t = "bool" -> IntV(IF v.b THEN 1 ELSE 0)
    [] OTHER -> v

PyEq(a, b) == EqForm(a) = EqForm(b)

(***************************************************************************)
(* Element kinds.  Host kinds stand for Gtk.Widget subclasses, the others  *)
(* for Component subclasses.  A kind name stands for the pair              *)
(* type.__module__, type.__name__.                                         *)
(***************************************************************************)
HostKinds == {"Box", "Label", "Button", "MenuButton", "Window"}
StateKinds == {"Counter"}

\* issubclass(type_, Gtk.Widget)
IsGtkWidget(type_) == type_ \in HostKinds
\* issubclass(type_, Gtk.MenuButton)
IsMenuButton(type_) == type_ = "MenuButton"
\* issubclass(type_, Gtk.Button)
IsButton(type_) == type_ \in {"Button", "MenuButton"}
\* issubclass(type_, Gtk.Bin)
IsBin(type_) == type_ \in {"Button", "MenuButton", "Window"}
\* issubclass(type_, Gtk.Window)
IsWindow(type_) == type_ = "Window"
\* issubclass(type_, Gtk.Box)
IsBox(type_) == type_ = "Box"
\* issubclass(type_, Gtk.Popover)
IsPopover(type_) == FALSE
\* hasattr(type(self), 'State')
HasState(type_) == type_ \in StateKinds
\* k.startswith('child__')
IsChildProp(k) == k \in {"child__is_end", "child__is_header"}

\* '{}'.format(n) for the small naturals of the model
DigitStr(n) == <<"0", "1", "2", "3", "4", "5", "6", "7", "8", "9">>[n + 1]

\* '{}'.format(v) for an explicit key
FormatV(v) == IF v.t = "int" THEN DigitStr(v.n) ELSE v.s

\* a key that is the index alone, whatever `key` the node declares
treeitem_to_index(i, v) == <<DigitStr(i), v.type>>

\* treeitem_to_key(i, v) with i counted from 0.  The formatted string
\* 'key:module.name' is kept as the pair <<key text, kind>>: no kind name
\* holds a ':', so the pair and the string determine each other.
treeitem_to_key(i, v) ==
  LET key == DictGet(v.props, "key", NoneV)
  IN  <<IF Truthy(key) THEN FormatV(key) ELSE DigitStr(i), v.type>>

\* children_keys_dict(children): a later sibling with the same key
\* replaces the earlier one and keeps the earlier one's place.
RECURSIVE children_keys_dict_from(_, _, _)
children_keys_dict_from(children, i, d) ==
  IF i > Len(children) THEN d
  ELSE children_keys_dict_from(children, i + 1,
         DictSet(d, treeitem_to_key(i - 1, children[i]), children[i]))

children_keys_dict(children) == children_keys_dict_from(children, 1, <<>>)

\* an exclusion list without 'key'
_EXCLUDED_REF == {"ref"}

_EXCLUDED_KEYS == {"ref", "key"}

\* _get_to_inflate_for_type(type_)
_get_to_inflate_for_type(type_) ==
  <<"children">>
    \o (IF IsGtkWidget(type_) /\ IsMenuButton(type_) THEN <<"popover">> ELSE <<>>)
    \o (IF IsGtkWidget(type_) /\ IsButton(type_) THEN <<"image">> ELSE <<>>)

\* a comparison of lists by identity: the differ builds its lists anew on
\* every pass, so two of them are never the same object
prop_values_is(a, b) == IF a.t = "list" \/ b.t = "list" THEN FALSE ELSE PyEq(a, b)

\* prop_values_equal(a, b)
prop_values_equal(a, b) == PyEq(a, b)

(***************************************************************************)
(* The world threaded through a call chain.                                *)
(*   insts[i]  instance i: type, host (GtkComponent or Component), props   *)
(*             (GtkComponent._props / Component.props), attached (the      *)
(*             widgets of the wrapped container, by GtkComponent id),      *)
(*             titlebar (the header widget of a Window, 0 for none),       *)
(*             state, rendered_yet (_rendered_yet), subtree (_subtreelist, *)
(*             None kept as the empty list), destroys (calls of destroy)   *)
(*   obs[o]    Observable o: value, handlers connected to its 'changed'    *)
(*             signal, in connection order                                 *)
(*   log       the operations of the current call chain                    *)
(*   exc       the exception being propagated, "" for none                 *)
(*   nh        the next signal handler id                                  *)
(***************************************************************************)
Log(w, e) == [w EXCEPT !.log = Append(@, e)]
Raise(w, e) == [Log(w, [op |-> "raise", exc |-> e]) EXCEPT !.exc = e]
Dead(w, id) == w.insts[id].destroys > 0

\* c in l, for a list of widgets
InSeq(c, l) == \E i \in 1..Len(l) : l[i] = c

\* l.remove(c): the first occurrence
RemoveFirst(l, c) ==
  IF InSeq(c, l)
  THEN LET i == CHOOSE j \in 1..Len(l) : l[j] = c /\ \A h \in 1..(j - 1) : l[h] # c
       IN  SubSeq(l, 1, i - 1) \o SubSeq(l, i + 1, Len(l))
  ELSE l

\* Gtk.Box.reorder_child(child, position), position counted from 0
reorder_child(l, child, position) ==
  LET rest == RemoveFirst(l, child)
      at == IF position > Len(rest) THEN Len(rest) ELSE position
  IN  SubSeq(rest, 1, at) \o <<child>> \o SubSeq(rest, at + 1, Len(rest))

RECURSIVE get_widgets(_, _), WidgetsOf(_, _)
\* GtkComponent.get_widgets / Component.get_widgets
get_widgets(w, id) ==
  IF w.insts[id].host THEN <<id>> ELSE WidgetsOf(w, w.insts[id].subtree)

\* widgets = []; for node in nl: widgets.extend(node.instance.get_widgets())
WidgetsOf(w, nl) ==
  IF nl = <<>> THEN <<>>
  ELSE get_widgets(w, Head(nl).instance) \o WidgetsOf(w, Tail(nl))

\* v or [] for a prop value holding a node list
ListOrEmpty(v) == IF v.t = "list" THEN v.items ELSE <<>>

\* _node_list_single_widget(nl): raises when nl resolves to several widgets
_node_list_single_widget(w, nl) ==
  IF Len(WidgetsOf(w, ListOrEmpty(nl))) > 1
  THEN Raise(w, "ChildrenFormatException")
  ELSE w

RECURSIVE destroy(_, _), DestroyNodes(_, _)
\* GtkComponent.destroy / Component.destroy
destroy(w, id) ==
  LET w1 == Log([w EXCEPT !.insts[id].destroys = @ + 1],
                [op |-> "destroy", id |-> id, props |-> w.insts[id].props,
                 subtree |-> w.insts[id].subtree])
  IN  IF w.insts[id].host
      THEN DestroyNodes(w1, ListOrEmpty(DictGet(w.insts[id].props, "children", NoneV)))
      ELSE DestroyNodes(w1, w.insts[id].subtree)

\* for child in nodes: child.instance.destroy()
DestroyNodes(w, nodes) ==
  IF nodes = <<>> \/ w.exc # "" THEN w
  ELSE DestroyNodes(destroy(w, Head(nodes).instance), Tail(nodes))

\* Box branch of _handle_children, second loop: add and reorder_child
RECURSIVE BoxPlace(_, _, _, _)
BoxPlace(cur, old, children, i) ==
  IF i > Len(children) THEN cur
  ELSE BoxPlace(reorder_child(IF InSeq(children[i], old) THEN cur
                              ELSE Append(cur, children[i]),
                              children[i], i - 1),
                old, children, i + 1)

\* node.props.get('child__is_header')
IsHeader(node) == Truthy(DictGet(node.props, "child__is_header", NoneV))

\* a Bin accepts any number of children but none
SomeChild(children) == Len(children) >= 1

\* len(children) == 1
SingleChild(children) == Len(children) = 1

\* _handle_children, Bin branch: the titlebar of a Window is set before the
\* child is looked at
BinPlace(w, id, headers, children) ==
  IF Len(headers) > 1 THEN Raise(w, "ChildrenFormatException")
  ELSE IF SingleChild(children)
  THEN [w EXCEPT !.insts[id].attached = <<children[1]>>,
                 !.insts[id].titlebar = IF Len(headers) = 1 THEN headers[1] ELSE @]
  ELSE Raise([w EXCEPT !.insts[id].titlebar =
                         IF Len(headers) = 1 THEN headers[1] ELSE @],
             "ChildrenFormatException")

\* GtkComponent._handle_children(child_items)
_handle_children(w, id, child_items) ==
  IF child_items.t # "list" THEN Raise(w, "TypeError")
  ELSE
    LET children == WidgetsOf(w, child_items.items)
        old == w.insts[id].attached
        type_ == w.insts[id].type
        w0 == Log(w, [op |-> "children", id |-> id, type |-> type_,
                      items |-> child_items.items,
                      widgets |-> [i \in 1..Len(child_items.items) |->
                                     get_widgets(w, child_items.items[i].instance)]])
    IN  IF IsBin(type_)
        THEN IF IsWindow(type_)
             THEN BinPlace(w0, id,
                    WidgetsOf(w, SelectSeq(child_items.items, IsHeader)),
                    WidgetsOf(w, SelectSeq(child_items.items,
                                           LAMBDA n : ~IsHeader(n))))
             ELSE BinPlace(w0, id, <<>>, children)
        ELSE IF IsBox(type_)
        THEN [w0 EXCEPT !.insts[id].attached =
                BoxPlace(SelectSeq(old, LAMBDA c : InSeq(c, children)),
                         old, children, 1)]
        ELSE IF Len(children) > 0
             THEN Raise(w0, "ChildrenFormatException")
             ELSE w0

\* GtkComponent.set_property(k, v)
set_property(w, id, k, v) ==
  IF (k = "popover" /\ IsMenuButton(w.insts[id].type))
       \/ (k = "image" /\ IsButton(w.insts[id].type))
  THEN _node_list_single_widget(w, v)
  ELSE w

\* the exception in flight passes over the rest of a call; otherwise log e
LogUnlessExc(w, e) == IF w.exc # "" THEN w ELSE Log(w, e)

\* GtkComponent.update: self._props[k] = v, not reached when the branch raised
GtkStore(w, id, k, v) ==
  IF w.exc # "" THEN w ELSE [w EXCEPT !.insts[id].props = DictSet(@, k, v)]

\* GtkComponent.update: the branch taken for one (k, v)
GtkApply(w, id, k, v) ==
  IF k = "children" THEN _handle_children(w, id, v) ELSE set_property(w, id, k, v)

\* GtkComponent.update: the loop over updated_list
RECURSIVE GtkUpdateLoop(_, _, _, _)
GtkUpdateLoop(w, id, updated_list, i) ==
  IF i > Len(updated_list) \/ w.exc # "" THEN w
  ELSE IF IsChildProp(updated_list[i].k) THEN GtkUpdateLoop(w, id, updated_list, i + 1)
  ELSE GtkUpdateLoop(GtkStore(GtkApply(w, id, updated_list[i].k, updated_list[i].v),
                              id, updated_list[i].k, updated_list[i].v),
                     id, updated_list, i + 1)

\* GtkComponent.update(updated_list)
GtkUpdate(w, id, updated_list, src) ==
  LogUnlessExc(
    GtkUpdateLoop(Log(w, [op |-> "update", id |-> id, changes |-> updated_list,
                          src |-> src, dead |-> Dead(w, id)]),
                  id, updated_list, 1),
    [op |-> "updated", id |-> id])

\* a new instance record
NewInstance(type_, host) ==
  [type |-> type_, host |-> host, props |-> <<>>, attached |-> <<>>,
   titlebar |-> 0, state |-> 0, rendered_yet |-> FALSE, subtree |-> <<>>,
   destroys |-> 0]

\* the constructor returns: [w, id]
Constructed(w, id) ==
  [w |-> LogUnlessExc(w, [op |-> "constructed", id |-> id]), id |-> id]

\* GtkComponent.__init__: visible=True is a default prop
GtkDefaultProps(w, id, type_) ==
  IF w.exc = "" /\ ~IsPopover(type_)
  THEN GtkUpdate(w, id, <<Entry("visible", BoolV(TRUE))>>, "init")
  ELSE w

\* GtkComponent.__init__(type_, **props)
GtkComponentInit(w, type_, props) ==
  Constructed(
    GtkDefaultProps(
      GtkUpdate(Log([w EXCEPT !.insts = Append(@, NewInstance(type_, TRUE))],
                    [op |-> "construct", id |-> Len(w.insts) + 1, type |-> type_,
                     props |-> props]),
                Len(w.insts) + 1, props, "init"),
      Len(w.insts) + 1, type_),
    Len(w.insts) + 1)


\* a subscription that connects nothing
ConnectNone(w, o, id) == w

(***************************************************************************)
(* Observables: the 'changed' signal of GObject.  connect appends a        *)
(* handler; disconnect_by_func removes one handler of the callback (the    *)
(* latest connected) and raises TypeError when there is none.              *)
(***************************************************************************)
\* v.changed_signal.connect(self._observable_changed_cb)
Connect(w, o, id) ==
  Log([w EXCEPT !.obs[o].handlers =
                  Append(@, [hid |-> w.nh, self |-> id, model |-> 0]),
                !.nh = @ + 1],
      [op |-> "connect", o |-> o, id |-> id])

\* old.disconnect_by_func(self._observable_changed_cb)
Disconnect(w, o, id) ==
  LET hs == w.obs[o].handlers
      mine == {i \in 1..Len(hs) : hs[i].self = id}
  IN  IF mine = {} THEN Raise(w, "TypeError")
      ELSE LET i == CHOOSE j \in mine : \A h \in mine : h <= j
           IN  Log([w EXCEPT !.obs[o].handlers =
                                SubSeq(hs, 1, i - 1) \o SubSeq(hs, i + 1, Len(hs))],
                   [op |-> "disconnect", o |-> o, id |-> id])

(***************************************************************************)
(* The render functions of the component kinds of the model (user code:    *)
(* Component.render overridden as in src/counter.py).  App renders the     *)
(* tree selected by its model's value; Item renders as many labels as its  *)
(* model's value says; Wrap places its children prop in a Box; Counter     *)
(* renders its state's value.                                              *)
(***************************************************************************)
LabelK(key, label) ==
  Node("Label", <<Entry("key", IntV(key)), Entry("label", IntV(label))>>)

ItemK(key, o) ==
  Node("Item", <<Entry("key", IntV(key)), Entry("model", ObsV(o))>>)

BoxOf(children) == Node("Box", <<Entry("children", ListV(children))>>)

WrapNode == Node("Wrap", <<Entry("children",
                  ListV(<<Node("Label", <<Entry("label", IntV(1))>>)>>))>>)

CounterNode == Node("Counter", <<>>)

AppTrees ==
  << <<BoxOf(<<LabelK(1, 1), LabelK(2, 2), ItemK(3, 2)>>)>>,
     <<BoxOf(<<LabelK(2, 2), ItemK(3, 2), LabelK(1, 1)>>)>>,
     <<BoxOf(<<Node("Label", <<Entry("key", StrV("1")), Entry("label", IntV(1))>>),
               Node("Label", <<Entry("key", IntV(2)), Entry("label", IntV(3)),
                               Entry("child__is_end", BoolV(TRUE))>>),
               ItemK(4, 1)>>)>>,
     <<BoxOf(<<Node("Label", <<Entry("key", IntV(1))>>),
               Node("Button", <<Entry("key", IntV(2)), Entry("ref", FnV("R1")),
                                Entry("image", ListV(<<Node("Label",
                                   <<Entry("label", IntV(1))>>)>>))>>),
               Node("Item", <<Entry("key", IntV(4)), Entry("model", ObsV(1)),
                              Entry("extra", IntV(1))>>)>>)>>,
     <<WrapNode, CounterNode>>,
     <<CounterNode, WrapNode>>,
     <<BoxOf(<<LabelK(1, 1), LabelK(2, 2), ItemK(3, 2)>>)>>,
     <<BoxOf(<<Node("Label", <<Entry("key", IntV(1)), Entry("label", IntV(1)),
                               Entry("ref", FnV("R2")),
                               Entry("tooltip_text", NoneV)>>),
               Node("Item", <<Entry("key", IntV(3)), Entry("model", ObsV(3)),
                              Entry("ref", FnV("R1"))>>),
               ItemK(4, 3)>>)>>,
     <<BoxOf(<<Node("Item", <<Entry("key", IntV(3)), Entry("model", ObsV(2)),
                              Entry("extra", ObsV(2))>>),
               Node("Item", <<Entry("key", IntV(4)), Entry("model", ObsV(1)),
                              Entry("extra", ObsV(3))>>)>>)>> >>

ItemTrees ==
  << <<Node("Label", <<Entry("label", IntV(1))>>)>>,
     <<Node("Label", <<Entry("label", IntV(2))>>),
       Node("Label", <<Entry("label", IntV(2))>>)>>,
     <<>> >>

\* the trees ErrApp.render returns, by the value of its model: the second
\* gives a Button two children
ErrTrees ==
  << <<BoxOf(<<LabelK(1, 1), LabelK(2, 2),
               Node("Slot", <<Entry("key", IntV(3)), Entry("model", ObsV(2))>>)>>)>>,
     <<BoxOf(<<LabelK(1, 5),
               Node("Slot", <<Entry("key", IntV(3)), Entry("model", ObsV(2))>>),
               Node("Button", <<Entry("key", IntV(4)),
                                Entry("children",
                                      ListV(<<Node("Label", <<Entry("label", IntV(1))>>),
                                              Node("Label", <<Entry("label", IntV(2))>>)>>))>>)>>)>>,
     <<BoxOf(<<LabelK(1, 7),
               Node("Slot", <<Entry("key", IntV(3)), Entry("model", ObsV(3))>>),
               LabelK(2, 2)>>)>> >>

\* the trees Slot.render returns, by the value of its model: a Button with
\* one child, a Button with two, and a Label that is given a child
SlotTrees ==
  << <<Node("Button", <<Entry("children",
          ListV(<<Node("Label", <<Entry("label", IntV(1))>>)>>))>>)>>,
     <<Node("Button", <<Entry("children",
          ListV(<<Node("Label", <<Entry("label", IntV(1))>>),
                  Node("Label", <<Entry("label", IntV(2))>>)>>))>>)>>,
     <<Node("Label", <<Entry("label", IntV(3))>>),
       Node("Label", <<Entry("children",
          ListV(<<Node("Label", <<Entry("label", IntV(1))>>)>>))>>)>> >>

\* the trees ReApp.render returns, by the value of its model: the second
\* has a ref callback and the third a component with a hook, which assign
\* to Observables ReApp holds
ReTrees ==
  << <<BoxOf(<<LabelK(1, 1)>>)>>,
     <<BoxOf(<<LabelK(1, 1),
               Node("Label", <<Entry("key", IntV(2)), Entry("label", IntV(2)),
                               Entry("ref", FnV("R3"))>>)>>)>>,
     <<BoxOf(<<LabelK(1, 1), Node("Hook", <<Entry("key", IntV(3))>>)>>)>> >>

\* field i of the model m, as ObservableModel.__init__ creates them
FieldOf(m, i) == m + i

\* the Observable held in prop k, 0 when there is none
ObsOf(props, k) ==
  IF IsObservable(DictGet(props, k, NoneV)) THEN DictGet(props, k, NoneV).o ELSE 0

\* the value of the Observable held in prop k, 0 when there is none
ObsValue(w, props, k) ==
  IF IsObservable(DictGet(props, k, NoneV))
  THEN w.obs[DictGet(props, k, NoneV).o].value
  ELSE 0

\* self.render(**self.props): [exc, tree]
Render(w, id) ==
  LET type_ == w.insts[id].type
      props == w.insts[id].props
      m == ObsValue(w, props, "model")
  IN  CASE type_ = "App" ->
             IF m \in 1..Len(AppTrees) THEN [exc |-> "", tree |-> AppTrees[m]]
             ELSE [exc |-> "AttributeError", tree |-> <<>>]
        [] type_ = "Item" ->
             IF m > 0 THEN [exc |-> "", tree |-> ItemTrees[((m - 1) % Len(ItemTrees)) + 1]]
             ELSE [exc |-> "AttributeError", tree |-> <<>>]
        [] type_ = "Wrap" ->
             [exc |-> "",
              tree |-> <<Node("Box", <<Entry("children",
                                             DictGet(props, "children", NoneV))>>)>>]
        [] type_ = "ModelApp" ->
             [exc |-> "",
              tree |-> <<BoxOf(<<Node("Label", <<Entry("label",
                                   IntV(w.obs[FieldOf(ObsOf(props, "model"), 1)].value))>>),
                                 Node("View", <<Entry("model",
                                   DictGet(props, "model", NoneV))>>)>>)>>]
        [] type_ = "View" ->
             [exc |-> "",
              tree |-> <<Node("Label", <<Entry("label",
                            IntV(w.obs[FieldOf(ObsOf(props, "model"), 2)].value))>>)>>]
        [] type_ = "ReApp" ->
             IF m \in 1..Len(ReTrees) THEN [exc |-> "", tree |-> ReTrees[m]]
             ELSE [exc |-> "AttributeError", tree |-> <<>>]
        [] type_ = "ErrApp" ->
             IF m \in 1..Len(ErrTrees) THEN [exc |-> "", tree |-> ErrTrees[m]]
             ELSE [exc |-> "AttributeError", tree |-> <<>>]
        [] type_ = "Slot" ->
             IF m \in 1..Len(SlotTrees) THEN [exc |-> "", tree |-> SlotTrees[m]]
             ELSE [exc |-> "AttributeError", tree |-> <<>>]
        [] type_ = "Counter" ->
             [exc |-> "",
              tree |-> <<Node("Label", <<Entry("label",
                            IntV(w.obs[w.insts[id].state].value))>>)>>]
        [] OTHER -> [exc |-> "", tree |-> <<>>]

RECURSIVE SetValue(_, _, _)

\* the ref callbacks of the model record the instance they are given; R3
\* also assigns 2 to the second Observable
RefCall(w, f, id) ==
  IF f = "R3" THEN SetValue(Log(w, [op |-> "ref", cb |-> f, id |-> id]), 2, 2)
  ELSE Log(w, [op |-> "ref", cb |-> f, id |-> id])

(***************************************************************************)
(* Component and the differ.  Every operator returns the world after the   *)
(* call; render_tree returns [w, node], render_treelist [w, ret].  A call  *)
(* that finds w.exc set returns at once: the exception propagates.         *)
(***************************************************************************)
RECURSIVE ComponentUpdate(_, _, _, _), render_tree(_, _, _),
          render_treelist(_, _, _), InflateLoop(_, _, _, _, _),
          DestroyRemoved(_, _, _, _), RenderEach(_, _, _, _, _)

\* Component.update: the loop over updated_list
RECURSIVE ComponentPropLoop(_, _, _, _)
ComponentPropLoop(w, id, updated_list, i) ==
  IF i > Len(updated_list) \/ w.exc # "" THEN w
  ELSE
    LET k == updated_list[i].k
        v == updated_list[i].v
        old == DictGet(w.insts[id].props, k, NoneV)
        w1 == IF IsObservable(old) THEN Disconnect(w, old.o, id) ELSE w
        w2 == [w1 EXCEPT !.insts[id].props = DictSet(@, k, v)]
        w3 == IF IsObservable(v) THEN Connect(w2, v.o, id) ELSE w2
    IN  IF IsChildProp(k) THEN ComponentPropLoop(w, id, updated_list, i + 1)
        ELSE IF w1.exc # "" THEN w1
        ELSE ComponentPropLoop(w3, id, updated_list, i + 1)

\* a first-render test that never finds the flag set
RenderedNever(w, id) == FALSE

\* self._rendered_yet
RenderedYet(w, id) == w.insts[id].rendered_yet

\* Component.update: self.state = state_cls()
NewState(w, id) ==
  IF HasState(w.insts[id].type)
  THEN Log([w EXCEPT !.obs = Append(@, [value |-> 1, handlers |-> <<>>]),
                     !.insts[id].state = Len(w.obs) + 1],
           [op |-> "state", id |-> id, o |-> Len(w.obs) + 1,
            props |-> w.insts[id].props])
  ELSE w

\* self.before_first_render(**self.props): that of Hook assigns 3 to the
\* third Observable, the others do nothing
before_first_render(w, id) ==
  IF w.insts[id].type = "Hook"
  THEN SetValue(Log(w, [op |-> "before_first_render", id |-> id,
                        props |-> w.insts[id].props,
                        state |-> w.insts[id].state]), 3, 3)
  ELSE Log(w, [op |-> "before_first_render", id |-> id,
               props |-> w.insts[id].props, state |-> w.insts[id].state])

\* Component.update: connect the state and set self._rendered_yet
ConnectState(w, id) ==
  [(IF w.insts[id].state # 0 THEN Connect(w, w.insts[id].state, id) ELSE w)
     EXCEPT !.insts[id].rendered_yet = TRUE]

\* Component.update: the first-render block (if not self._rendered_yet)
FirstRender(w, id) ==
  IF RenderedYet(w, id) THEN w
  ELSE ConnectState(before_first_render(NewState(w, id), id), id)

\* an update pass that stops before it stores the subtree
StoreNothing(r, id) == r.w

\* an update pass that stores the subtree and notifies whatever happened
StoreAnyway(r, id) ==
  Log([r.w EXCEPT !.insts[id].subtree = r.ret],
      [op |-> "updated", id |-> id, subtree |-> r.ret])

\* Component.update: self._subtreelist = ...; self.updated_signal.emit()
StoreSubtree(r, id) ==
  IF r.w.exc # "" THEN r.w
  ELSE Log([r.w EXCEPT !.insts[id].subtree = r.ret],
           [op |-> "updated", id |-> id, subtree |-> r.ret])

\* Component.update: self._subtreelist = render_treelist(self._subtreelist, new)
RenderAndDiff(w, id, new) ==
  IF new.exc # "" THEN Raise(w, new.exc)
  ELSE StoreSubtree(render_treelist(w, w.insts[id].subtree, new.tree), id)

\* what render does besides returning a tree: that of ReApp resets its
\* model to 2 when it finds 4 in it, the others do nothing
RenderEffect(w, id) ==
  IF w.insts[id].type = "ReApp" /\ ObsValue(w, w.insts[id].props, "model") = 4
  THEN SetValue(w, DictGet(w.insts[id].props, "model", NoneV).o, 2)
  ELSE w

\* Component.update: new = self.render(**self.props)
Rendered(w, id) == RenderAndDiff(w, id, Render(w, id))

\* Component.update: what follows the loop over updated_list
AfterProps(w, id) ==
  IF w.exc # "" THEN w
  ELSE Rendered(RenderEffect(Log(w, [op |-> "render", id |-> id,
                                     props |-> w.insts[id].props,
                                     dead |-> Dead(w, id)]), id), id)

\* Component.update(updated_list)
ComponentUpdate(w, id, updated_list, src) ==
  AfterProps(
    FirstRender(
      ComponentPropLoop(
        Log(w, [op |-> "update", id |-> id, changes |-> updated_list,
                src |-> src, dead |-> Dead(w, id), props |-> w.insts[id].props,
                subtree |-> w.insts[id].subtree]),
        id, updated_list, 1),
      id),
    id)

\* Component.__init__(**props)
ComponentInit(w, type_, props) ==
  Constructed(
    ComponentUpdate(Log([w EXCEPT !.insts = Append(@, NewInstance(type_, FALSE))],
                        [op |-> "construct", id |-> Len(w.insts) + 1, type |-> type_,
                         props |-> props]),
                    Len(w.insts) + 1, props, "init"),
    Len(w.insts) + 1)

\* instance.update(changes)
InstanceUpdate(w, id, changes, src) ==
  IF w.insts[id].host THEN GtkUpdate(w, id, changes, src)
  ELSE ComponentUpdate(w, id, changes, src)

\* render_tree: for k in old_props.keys(): ... changes.append((k, None))
RECURSIVE RemovedChanges(_, _, _)
RemovedChanges(old_props, new_props, i) ==
  IF i > Len(old_props) THEN <<>>
  ELSE (IF old_props[i].k \notin _EXCLUDED_KEYS /\ ~Has(new_props, old_props[i].k)
        THEN <<Entry(old_props[i].k, NoneV)>> ELSE <<>>)
       \o RemovedChanges(old_props, new_props, i + 1)

\* render_tree: for k, v in new_props.items(): ... changes.append((k, v))
RECURSIVE ChangedChanges(_, _, _)
ChangedChanges(old_props, new_props, i) ==
  IF i > Len(new_props) THEN <<>>
  ELSE (IF new_props[i].k \notin _EXCLUDED_KEYS
           /\ ~prop_values_equal(DictGet(old_props, new_props[i].k, NoneV),
                                 new_props[i].v)
        THEN <<new_props[i]>> ELSE <<>>)
       \o ChangedChanges(old_props, new_props, i + 1)

\* the props of the node as they are, reserved ones included
WithAll(new_props) == new_props

\* p = {k: v for k, v in new_props.items() if k not in _EXCLUDED_KEYS}
WithoutExcluded(new_props) == SelectSeq(new_props, LAMBDA e : e.k \notin _EXCLUDED_KEYS)

\* old_type == new_type
SameType(old_type, new_type) == old_type = new_type

\* render_tree: v = render_treelist(old, new); if v: new_props[k] = v
InflateStore(r, old_props, new_props, to_inflate, j) ==
  InflateLoop(r.w, old_props,
              IF r.ret # <<>> THEN DictSet(new_props, to_inflate[j], ListV(r.ret))
              ELSE new_props,
              to_inflate, j + 1)

\* render_tree: the loop over to_inflate; returns [w, new_props]
InflateLoop(w, old_props, new_props, to_inflate, j) ==
  IF j > Len(to_inflate) \/ w.exc # "" THEN [w |-> w, new_props |-> new_props]
  ELSE IF DictGet(new_props, to_inflate[j], ListV(<<>>)).t # "list"
  THEN [w |-> Raise(w, "TypeError"), new_props |-> new_props]
  ELSE InflateStore(
         render_treelist(w,
           ListOrEmpty(DictGet(old_props, to_inflate[j], ListV(<<>>))),
           DictGet(new_props, to_inflate[j], ListV(<<>>)).items),
         old_props, new_props, to_inflate, j)

\* render_tree: node = Node(new_type, **new_props); node.instance = instance
MakeNode(w, new_type, new_props, id, fresh) ==
  IF w.exc # "" THEN [w |-> w, node |-> NoNode]
  ELSE [w |-> Log(w, [op |-> "node", id |-> id, props |-> new_props,
                      fresh |-> fresh]),
        node |-> [type |-> new_type, props |-> new_props, instance |-> id]]

\* render_tree: if changes: instance.update(changes)
ApplyChanges(w, old, new_type, new_props, changes) ==
  MakeNode(IF changes # <<>>
           THEN InstanceUpdate(Log(w, [op |-> "match", id |-> old.instance,
                                       old_props |-> old.props,
                                       new_props |-> new_props]),
                               old.instance, changes, "diff")
           ELSE Log(w, [op |-> "match", id |-> old.instance,
                        old_props |-> old.props, new_props |-> new_props]),
           new_type, new_props, old.instance, FALSE)

\* render_tree: if new_props.get('ref'): new_props['ref'](instance)
CallRef(made, new_type, new_props) ==
  MakeNode(IF made.w.exc = "" /\ Truthy(DictGet(new_props, "ref", NoneV))
           THEN RefCall(made.w, DictGet(new_props, "ref", NoneV).f, made.id)
           ELSE made.w,
           new_type, new_props, made.id, TRUE)

\* render_tree: GtkComponent(new_type, **p) or new_type(**p)
Construct(w, new_type, p) ==
  IF w.exc # "" THEN [w |-> w, id |-> 0]
  ELSE IF IsGtkWidget(new_type) THEN GtkComponentInit(w, new_type, p)
  ELSE ComponentInit(w, new_type, p)

\* render_tree: the else branch (no old node, or another type)
Recreate(w, old, new_type, new_props) ==
  CallRef(Construct(IF old.instance # 0 THEN destroy(w, old.instance) ELSE w,
                    new_type, WithoutExcluded(new_props)),
          new_type, new_props)

\* render_tree: what follows the loop over to_inflate
AfterInflate(inf, old, new_type) ==
  IF inf.w.exc # "" THEN [w |-> inf.w, node |-> NoNode]
  ELSE IF SameType(old.type, new_type)
  THEN ApplyChanges(inf.w, old, new_type, inf.new_props,
                    RemovedChanges(old.props, inf.new_props, 1)
                      \o ChangedChanges(old.props, inf.new_props, 1))
  ELSE Recreate(inf.w, old, new_type, inf.new_props)

\* render_tree(old, new); old = NoNode stands for None
render_tree(w, old, new) ==
  AfterInflate(InflateLoop(w, old.props, new.props,
                           _get_to_inflate_for_type(new.type), 1),
               old, new.type)

\* a removal test that finds every old key again
IsRemovedNever(k, new_keys) == FALSE

\* if k not in new_keys: if v.instance is not None: v.instance.destroy()
IsRemoved(k, new_keys) == ~Has(new_keys, k)

\* render_treelist: for k, v in old_keys.items(): destroy the removed
DestroyRemoved(w, old_keys, new_keys, i) ==
  IF i > Len(old_keys) \/ w.exc # "" THEN w
  ELSE DestroyRemoved(
         IF IsRemoved(old_keys[i].k, new_keys) /\ old_keys[i].v.instance # 0
         THEN destroy(w, old_keys[i].v.instance) ELSE w,
         old_keys, new_keys, i + 1)

\* render_treelist: ret.append(render_tree(old_keys.get(k), v))
AppendRendered(r, old_keys, new, i, ret) ==
  RenderEach(r.w, old_keys, new, i + 1,
             IF r.w.exc # "" THEN ret ELSE Append(ret, r.node))

\* render_treelist: for i, v in enumerate(new)
RenderEach(w, old_keys, new, i, ret) ==
  IF i > Len(new) \/ w.exc # "" THEN [w |-> w, ret |-> ret]
  ELSE AppendRendered(
         render_tree(w, DictGet(old_keys, treeitem_to_key(i - 1, new[i]), NoNode),
                     new[i]),
         old_keys, new, i, ret)

\* render_treelist: return ret
ReturnList(r, from, old, new) ==
  IF r.w.exc # "" THEN r
  ELSE [w |-> Log(r.w, [op |-> "treelist", from |-> from, old |-> old,
                        new |-> new, ret |-> r.ret]),
        ret |-> r.ret]

\* render_treelist(old, new)
render_treelist(w, old, new) ==
  ReturnList(
    RenderEach(DestroyRemoved(w, children_keys_dict(old), children_keys_dict(new), 1),
               children_keys_dict(old), new, 1, <<>>),
    Len(w.log) + 1, old, new)

(***************************************************************************)
(* Signal emission: the handlers connected when the emission starts run in *)
(* connection order; one disconnected meanwhile is skipped.  An exception  *)
(* leaving a handler is printed by the signal machinery and the emission   *)
(* goes on.                                                                *)
(***************************************************************************)
\* the closure's marshaller prints the exception of a handler and drops it
PrintExc(w) ==
  IF w.exc # ""
  THEN [Log(w, [op |-> "printed", exc |-> w.exc, insts |-> w.insts])
          EXCEPT !.exc = ""]
  ELSE w

\* the handler is still connected
Connected(w, o, hid) ==
  \E j \in 1..Len(w.obs[o].handlers) : w.obs[o].handlers[j].hid = hid

\* an update of Component id is in progress in the call chain of w
InProgress(w, id) ==
  Cardinality({i \in 1..Len(w.log) : w.log[i].op = "update" /\ w.log[i].id = id})
    > Cardinality({i \in 1..Len(w.log) :
                     w.log[i].op = "updated" /\ w.log[i].id = id})

\* a handler that drops the notification while its Component is updating
GuardedCb(w, id) ==
  IF InProgress(w, id) THEN w ELSE ComponentUpdate(w, id, <<>>, "notify")

\* Component._observable_changed_cb(observable)
_observable_changed_cb(w, id) == ComponentUpdate(w, id, <<>>, "notify")

RECURSIVE EmitLoop(_, _, _, _), Emit(_, _)

\* ObservableModel._attribute_changed_cb(value)
_attribute_changed_cb(w, m) == Emit(w, m)

\* the handler called: that of a Component (self) or that of a model
HandlerCall(w, h) ==
  IF h.self # 0 THEN _observable_changed_cb(w, h.self)
  ELSE _attribute_changed_cb(w, h.model)

EmitLoop(w, o, hs, i) ==
  IF i > Len(hs) THEN w
  ELSE EmitLoop(IF Connected(w, o, hs[i].hid)
                THEN PrintExc(HandlerCall(w, hs[i]))
                ELSE w,
                o, hs, i + 1)

\* self.changed_signal.emit()
Emit(w, o) == EmitLoop(Log(w, [op |-> "emit", o |-> o]), o, w.obs[o].handlers, 1)

\* a setter that notifies whatever the value was
SetAlways(w, o, new_value) ==
  Emit([Log(w, [op |-> "set", o |-> o, value |-> new_value,
                old |-> w.obs[o].value])
          EXCEPT !.obs[o].value = new_value], o)

\* ObservableValue.value setter
SetValue(w, o, new_value) ==
  IF w.obs[o].value = new_value
  THEN Log(w, [op |-> "set", o |-> o, value |-> new_value, old |-> w.obs[o].value])
  ELSE Emit([Log(w, [op |-> "set", o |-> o, value |-> new_value,
                     old |-> w.obs[o].value])
               EXCEPT !.obs[o].value = new_value], o)

\* ObservableModel.__setattr__(k, new) for a new ObservableValue field:
\* connect _attribute_changed_cb to it and emit the model's signal
__setattr__(w, m) ==
  Emit([w EXCEPT !.obs = Append(@, [value |-> 0,
                                    handlers |-> <<[hid |-> w.nh, self |-> 0,
                                                    model |-> m]>>]),
                 !.nh = @ + 1],
       m)

\* ObservableModel.__init__: the model and its two fields, created at 0
ObservableModelInit(w) ==
  __setattr__(
    __setattr__([w EXCEPT !.obs = Append(@, [value |-> 0, handlers |-> <<>>])],
                Len(w.obs) + 1),
    Len(w.obs) + 1)


(***************************************************************************)
(* The state machine.  The application is run(App, model=O1) with the      *)
(* Observables O1, O2, O3 (obs[1..3]) created by the program beforehand;   *)
(* Activate is _PyractApplication.do_activate, Assign an assignment to the *)
(* value of an Observable made by a signal handler from the event loop.    *)
(***************************************************************************)
VARIABLES insts, obs, nh, log, steps

vars == <<insts, obs, nh, log, steps>>

\* the values an assignment may give Observable o
ValuesOf(o) == IF o = 1 THEN 1..Len(AppTrees) ELSE 1..Len(ItemTrees)

\* the world at the start of a call chain
World == [insts |-> insts, obs |-> obs, log |-> <<>>, exc |-> "", nh |-> nh]

Commit(w) ==
  /\ insts' = w.insts
  /\ obs' = w.obs
  /\ nh' = w.nh
  /\ log' = w.log

Init ==
  /\ insts = <<>>
  /\ obs = [o \in 1..3 |-> [value |-> 1, handlers |-> <<>>]]
  /\ nh = 1
  /\ log = <<>>
  /\ steps = 0

\* _PyractApplication.do_activate: instance = type_(**kwargs)
Activate ==
  /\ insts = <<>>
  /\ Commit(ComponentInit(World, "App", <<Entry("model", ObsV(1))>>).w)
  /\ UNCHANGED steps

\* observable.value = v
Assign ==
  /\ insts # <<>>
  /\ steps < MaxSteps
  /\ \E o \in 1..Len(obs) : \E v \in ValuesOf(o) : Commit(SetValue(World, o, v))
  /\ steps' = steps + 1

Next == Activate \/ Assign

Spec == Init /\ [][Next]_vars

(***************************************************************************)
(* A second application, run(ErrApp, model=O1): its trees violate the      *)
(* child arity of a container for some values of the Observables.          *)
(***************************************************************************)
\* _PyractApplication.do_activate: instance = type_(**kwargs)
ErrActivate ==
  /\ insts = <<>>
  /\ Commit(ComponentInit(World, "ErrApp", <<Entry("model", ObsV(1))>>).w)
  /\ UNCHANGED steps

\* observable.value = v
ErrAssign ==
  /\ insts # <<>>
  /\ steps < MaxSteps
  /\ \E o \in 1..Len(obs) : \E v \in 1..Len(SlotTrees) :
       Commit(SetValue(World, o, v))
  /\ steps' = steps + 1

ErrNext == ErrActivate \/ ErrAssign

ErrSpec == Init /\ [][ErrNext]_vars

(***************************************************************************)
(* A third application, run(ReApp, model=O1, extra=O2, third=O3): its      *)
(* render function, a ref callback and a before_first_render hook of its   *)
(* tree assign to the Observables it is subscribed to.                     *)
(***************************************************************************)
\* the largest value assigned to an Observable of ReApp
MaxValue == 4

\* _PyractApplication.do_activate: instance = type_(**kwargs)
ReActivate ==
  /\ insts = <<>>
  /\ Commit(ComponentInit(World, "ReApp",
                          <<Entry("model", ObsV(1)), Entry("extra", ObsV(2)),
                            Entry("third", ObsV(3))>>).w)
  /\ UNCHANGED steps

\* observable.value = v
ReAssign ==
  /\ insts # <<>>
  /\ steps < MaxSteps
  /\ \E o \in 1..Len(obs) : \E v \in 1..MaxValue : Commit(SetValue(World, o, v))
  /\ steps' = steps + 1

ReNext == ReActivate \/ ReAssign

ReSpec == Init /\ [][ReNext]_vars

(***************************************************************************)
(* A fourth application, run(ModelApp, model=AppModel()), as counter.py:   *)
(* the model is an ObservableModel with two ObservableValue fields, ModelApp*)
(* shows the first and gives the model to a View, which shows the second.  *)
(***************************************************************************)
\* the largest value assigned to a field of the model
MaxCount == 3

ModelInit ==
  /\ insts = <<>>
  /\ obs = <<>>
  /\ nh = 1
  /\ log = <<>>
  /\ steps = 0

\* AppModel()
NewModel ==
  /\ obs = <<>>
  /\ Commit(ObservableModelInit(World))
  /\ UNCHANGED steps

\* _PyractApplication.do_activate: instance = type_(**kwargs)
ModelActivate ==
  /\ obs # <<>> /\ insts = <<>>
  /\ Commit(ComponentInit(World, "ModelApp", <<Entry("model", ObsV(1))>>).w)
  /\ UNCHANGED steps

\* self.counter.value = v
ModelAssign ==
  /\ insts # <<>>
  /\ steps < MaxSteps
  /\ \E i \in 1..2 : \E v \in 0..MaxCount :
       Commit(SetValue(World, FieldOf(1, i), v))
  /\ steps' = steps + 1

ModelNext == NewModel \/ ModelActivate \/ ModelAssign

ModelSpec == ModelInit /\ [][ModelNext]_vars

(***************************************************************************)
(* ObservableList.  A program holds two ObservableValue items (obs[1],     *)
(* obs[2]) and lst = ObservableList(ObservableValue) (obs[3], its value a  *)
(* sequence of items); it appends, pops, clears, assigns to lst.value and  *)
(* assigns to the items' values.  The handler of _item_changed_cb on an    *)
(* item is a record with model = the list, and does what                   *)
(* _attribute_changed_cb does: it emits the signal of its owner.           *)
(***************************************************************************)
\* the items of the program and the longest list assigned to lst.value
ListItems == {1, 2}
MaxLen == 2

\* ObservableList._item_changed_cb(item)
_item_changed_cb(w, l) == Emit(w, l)

\* item.changed_signal.connect(self._item_changed_cb)
ItemConnect(w, item, l) ==
  Log([w EXCEPT !.obs[item].handlers =
                  Append(@, [hid |-> w.nh, self |-> 0, model |-> l]),
                !.nh = @ + 1],
      [op |-> "connect", o |-> item, id |-> 0])

\* item.disconnect_by_func(self._item_changed_cb)
ItemDisconnect(w, item, l) ==
  LET hs == w.obs[item].handlers
      mine == {i \in 1..Len(hs) : hs[i].model = l}
  IN  IF mine = {} THEN Raise(w, "TypeError")
      ELSE LET i == CHOOSE j \in mine : \A h \in mine : h <= j
           IN  Log([w EXCEPT !.obs[item].handlers =
                                SubSeq(hs, 1, i - 1) \o SubSeq(hs, i + 1, Len(hs))],
                   [op |-> "disconnect", o |-> item, id |-> 0])

\* for item in xs: if item not in ys: connect
RECURSIVE ConnectNew(_, _, _, _)
ConnectNew(w, l, xs, ys) ==
  IF xs = <<>> \/ w.exc # "" THEN w
  ELSE ConnectNew(IF InSeq(Head(xs), ys) THEN w ELSE ItemConnect(w, Head(xs), l),
                  l, Tail(xs), ys)

\* for item in xs: if item not in ys: disconnect
RECURSIVE DisconnectOld(_, _, _, _)
DisconnectOld(w, l, xs, ys) ==
  IF xs = <<>> \/ w.exc # "" THEN w
  ELSE DisconnectOld(IF InSeq(Head(xs), ys) THEN w
                     ELSE ItemDisconnect(w, Head(xs), l),
                     l, Tail(xs), ys)

\* an operation of the list starts: recorded with the contents it finds
ListOp(w, l, name) ==
  Log(w, [op |-> "list", o |-> l, name |-> name, old |-> w.obs[l].value])

\* ObservableList.value setter: neither stores new_value nor emits
ListSetValue(w, l, new_value) ==
  IF w.obs[l].value = new_value THEN ListOp(w, l, "value")
  ELSE DisconnectOld(ConnectNew(ListOp(w, l, "value"), l, new_value,
                                w.obs[l].value),
                     l, w.obs[l].value, new_value)

\* ObservableList.append(item)
ListAppend(w, l, item) ==
  Emit(ItemConnect([ListOp(w, l, "append") EXCEPT !.obs[l].value = Append(@, item)],
                   item, l),
       l)

\* ObservableList.clear(): what follows the loop over the items
ListCleared(w, l) ==
  IF w.exc # "" THEN w ELSE Emit([w EXCEPT !.obs[l].value = <<>>], l)

\* ObservableList.clear()
ListClear(w, l) ==
  ListCleared(DisconnectOld(ListOp(w, l, "clear"), l, w.obs[l].value, <<>>), l)

\* ObservableList.pop: what follows self.value.pop(index)
ListPopped(w, l, item) ==
  IF w.exc # "" THEN w ELSE Emit(w, l)

\* ObservableList.pop(index): index 0 stands for None, which list.pop
\* rejects with TypeError; indexes count from 1
ListPop(w, l, index) ==
  IF index = 0 THEN Raise(ListOp(w, l, "pop"), "TypeError")
  ELSE IF index > Len(w.obs[l].value) THEN Raise(ListOp(w, l, "pop"), "IndexError")
  ELSE ListPopped(
         ItemDisconnect(
           [ListOp(w, l, "pop") EXCEPT !.obs[l].value =
              SubSeq(@, 1, index - 1) \o SubSeq(@, index + 1, Len(@))],
           w.obs[l].value[index], l),
         l, w.obs[l].value[index])

\* the lists over the items, up to MaxLen long
RECURSIVE ListsOf(_)
ListsOf(n) ==
  IF n = 0 THEN {<<>>}
  ELSE ListsOf(n - 1) \cup {Append(xs, i) : xs \in ListsOf(n - 1), i \in ListItems}

\* the program has created the two items and the empty list
ListInit ==
  /\ insts = <<>>
  /\ obs = <<[value |-> 1, handlers |-> <<>>], [value |-> 1, handlers |-> <<>>],
             [value |-> <<>>, handlers |-> <<>>]>>
  /\ nh = 1
  /\ log = <<>>
  /\ steps = 0

\* lst.append(item)
DoAppend ==
  /\ steps < MaxSteps
  /\ \E item \in ListItems : Commit(ListAppend(World, 3, item))
  /\ steps' = steps + 1

\* lst.pop(index)
DoPop ==
  /\ steps < MaxSteps
  /\ \E index \in 0..(MaxLen + 1) : Commit(ListPop(World, 3, index))
  /\ steps' = steps + 1

\* lst.clear()
DoClear ==
  /\ steps < MaxSteps
  /\ Commit(ListClear(World, 3))
  /\ steps' = steps + 1

\* lst.value = new_value
DoAssignList ==
  /\ steps < MaxSteps
  /\ \E new_value \in ListsOf(MaxLen) : Commit(ListSetValue(World, 3, new_value))
  /\ steps' = steps + 1

\* item.value = v
DoAssignItem ==
  /\ steps < MaxSteps
  /\ \E item \in ListItems : \E v \in 1..2 : Commit(SetValue(World, item, v))
  /\ steps' = steps + 1

ListNext == DoAppend \/ DoPop \/ DoClear \/ DoAssignList \/ DoAssignItem

ListSpec == ListInit /\ [][ListNext]_vars

(***************************************************************************)
(* Direct calls.  treeitem_to_key, render_treelist and render_tree are     *)
(* module-level functions a program may call itself; DirectSpec calls them *)
(* once, from the state before anything is rendered, with arguments drawn  *)
(* from small sets.                                                        *)
(***************************************************************************)
\* the largest sibling index a key is derived for
MaxIndex == 2

\* the `key` props tried: none, 0, 1, 2, '' and '1'
KeyValues == {NoneV, IntV(0), IntV(1), IntV(2), StrV(""), StrV("1")}
KeyKinds == {"Label", "Box"}

\* Node(kind) or Node(kind, key=key)
KeyNode(kind, key) ==
  IF key = NoneV THEN Node(kind, <<>>) ELSE Node(kind, <<Entry("key", key)>>)

\* k = treeitem_to_key(i, v), recorded with its arguments
KeyEvent(i, v) == [op |-> "key", i |-> i, v |-> v, key |-> treeitem_to_key(i, v)]

\* two calls of treeitem_to_key
KeyCall ==
  /\ insts = <<>> /\ steps = 0
  /\ \E i1, i2 \in 0..MaxIndex : \E k1, k2 \in KeyValues : \E t1, t2 \in KeyKinds :
       log' = <<KeyEvent(i1, KeyNode(t1, k1)), KeyEvent(i2, KeyNode(t2, k2))>>
  /\ steps' = 1
  /\ UNCHANGED <<insts, obs, nh>>

\* the nodes tried as children: two labels, two header labels, and Items
\* that render one, two and no label (the Observables hold 1, 2 and 3)
DirectLabel(n) == Node("Label", <<Entry("label", IntV(n))>>)
DirectHeader(n) ==
  Node("Label", <<Entry("label", IntV(n)), Entry("child__is_header", BoolV(TRUE))>>)
DirectItem(o) == Node("Item", <<Entry("model", ObsV(o))>>)

ChildLists ==
  { <<>>, <<DirectLabel(1)>>, <<DirectLabel(1), DirectLabel(2)>>,
    <<DirectHeader(1)>>, <<DirectHeader(1), DirectLabel(1)>>,
    <<DirectHeader(1), DirectHeader(2), DirectLabel(1)>>,
    <<DirectItem(1)>>, <<DirectItem(2)>>, <<DirectItem(3)>>,
    <<DirectItem(3), DirectLabel(1)>> }

DirectKinds == {"Button", "Window", "Label", "Box", "Wrap"}

\* the nodes handed to render_treelist and render_tree
DirectNodes ==
  {Node(k, <<Entry("children", ListV(l))>>) : k \in DirectKinds, l \in ChildLists}
    \cup {Node(k, <<>>) : k \in DirectKinds}

\* render_tree returns its node to the caller
Returned(r) ==
  IF r.w.exc # "" THEN r.w ELSE Log(r.w, [op |-> "returned", node |-> r.node])

\* node = render_tree(old, new), with old as render_treelist returned it
TreeSecond(r, new) ==
  IF r.w.exc # "" THEN r.w
  ELSE Returned(
         render_tree(Log(r.w, [op |-> "direct", old |-> r.ret[1], new |-> new,
                               n |-> Len(r.w.insts)]),
                     r.ret[1], new))

\* old = render_treelist(None, [old])[0]; render_tree(old, new)
TreeCall ==
  /\ insts = <<>> /\ steps = 0
  /\ \E old, new \in DirectNodes :
       Commit(TreeSecond(render_treelist(World, <<>>, <<old>>), new))
  /\ steps' = 1

\* the Observables of the direct calls hold 1, 2 and 3
DirectInit ==
  /\ insts = <<>>
  /\ obs = [o \in 1..3 |-> [value |-> o, handlers |-> <<>>]]
  /\ nh = 1
  /\ log = <<>>
  /\ steps = 0

DirectNext == KeyCall \/ TreeCall

DirectSpec == DirectInit /\ [][DirectNext]_vars


(***************************************************************************)
(* Properties.  They are read off log, the operations of the last call     *)
(* chain: event j with op "treelist" is the return of a render_treelist    *)
(* call whose own operations are the events log[j].from .. j - 1.          *)
(***************************************************************************)
Events == 1..Len(log)

\* the operations made inside the render_treelist call that returns at j
Span(j) == log[j].from .. (j - 1)

\* the instances a node list is bound to, position by position, with those
\* of every nested node list
RECURSIVE Bound(_)
Bound(nodes) ==
  [i \in 1..Len(nodes) |->
     [instance |-> nodes[i].instance,
      nested |-> {[k |-> e.k, bound |-> Bound(e.v.items)] :
                    e \in {nodes[i].props[q] : q \in
                             {q \in 1..Len(nodes[i].props) :
                                nodes[i].props[q].v.t = "list"}}}]]

\* the node list holds a node with a non-empty nested list
HasNested(nodes) ==
  \E i \in 1..Len(nodes) : \E q \in 1..Len(nodes[i].props) :
    nodes[i].props[q].v.t = "list" /\ nodes[i].props[q].v.items # <<>>

\* C1 (idempotence): a render_treelist(old, new) call whose new is equal by
\* value to old calls no update, constructs and destroys no instance, and
\* binds every resulting node, nested ones included, to the instance of the
\* corresponding old node.
C1_Idempotence ==
  \A j \in Events :
    (log[j].op = "treelist" /\ PyEq(ListV(log[j].old), ListV(log[j].new)))
      => /\ \A i \in Span(j) : log[i].op \notin {"update", "construct", "destroy"}
         /\ Bound(log[j].ret) = Bound(log[j].old)

\* a pass over an unchanged, non-empty list of siblings with children
C1_Witness ==
  \E j \in Events :
    /\ log[j].op = "treelist"
    /\ PyEq(ListV(log[j].old), ListV(log[j].new))
    /\ HasNested(log[j].old)
    /\ \A i \in 1..Len(log[j].old) : log[j].old[i].instance # 0

\* a node by value: its kind and props, nested lists included, not its instance
NodeForm(n) == EqForm(ListV(<<n>>))

\* new holds the nodes of old, by value, each as often as old does
IsPermutation(old, new) ==
  /\ Len(old) = Len(new)
  /\ \A p \in 1..Len(old) :
       Cardinality({i \in 1..Len(old) : NodeForm(old[i]) = NodeForm(old[p])})
         = Cardinality({i \in 1..Len(new) : NodeForm(new[i]) = NodeForm(old[p])})

\* the derived keys of a list of siblings
KeysOf(nodes) == [i \in 1..Len(nodes) |-> treeitem_to_key(i - 1, nodes[i])]

Distinct(seq) == \A a, b \in 1..Len(seq) : seq[a] = seq[b] => a = b

\* the declared key of a sibling with its kind; every sibling declares a
\* truthy key
ExplicitKey(n) == <<FormatV(DictGet(n.props, "key", NoneV)), n.type>>
ExplicitKeys(nodes) == [i \in 1..Len(nodes) |-> ExplicitKey(nodes[i])]
AllKeyed(nodes) ==
  \A i \in 1..Len(nodes) : Truthy(DictGet(nodes[i].props, "key", NoneV))

\* C2 as stated (key-stable reorder): when new is a permutation of old and
\* the derived keys of the siblings are pairwise distinct, render_treelist
\* constructs and destroys no instance, binds each resulting node to the
\* instance of the old node with the same derived key, and returns the nodes
\* in the order of new.
C2_AnyPermutation ==
  \A j \in Events :
    (/\ log[j].op = "treelist"
     /\ IsPermutation(log[j].old, log[j].new)
     /\ Distinct(KeysOf(log[j].old)) /\ Distinct(KeysOf(log[j].new)))
      => /\ \A i \in Span(j) : log[i].op \notin {"construct", "destroy"}
         /\ Len(log[j].ret) = Len(log[j].new)
         /\ \A q \in 1..Len(log[j].new) :
              /\ NodeForm(log[j].ret[q]) = NodeForm(log[j].new[q])
              /\ \E p \in 1..Len(log[j].old) :
                   /\ KeysOf(log[j].old)[p] = KeysOf(log[j].new)[q]
                   /\ log[j].ret[q].instance = log[j].old[p].instance

\* C2 (key-stable reorder of keyed siblings): when new is a permutation of
\* old, every sibling declares a truthy `key`, and the declared keys with the
\* kinds are pairwise distinct, render_treelist constructs and destroys no
\* instance, binds each resulting node to the instance of the old node
\* declaring the same key, and returns the nodes in the order of new.
C2_KeyedPermutation ==
  \A j \in Events :
    (/\ log[j].op = "treelist"
     /\ IsPermutation(log[j].old, log[j].new)
     /\ AllKeyed(log[j].old) /\ AllKeyed(log[j].new)
     /\ Distinct(ExplicitKeys(log[j].old)) /\ Distinct(ExplicitKeys(log[j].new)))
      => /\ \A i \in Span(j) : log[i].op \notin {"construct", "destroy"}
         /\ Len(log[j].ret) = Len(log[j].new)
         /\ \A q \in 1..Len(log[j].new) :
              /\ NodeForm(log[j].ret[q]) = NodeForm(log[j].new[q])
              /\ \E p \in 1..Len(log[j].old) :
                   /\ ExplicitKey(log[j].old[p]) = ExplicitKey(log[j].new[q])
                   /\ log[j].ret[q].instance = log[j].old[p].instance
                   /\ log[j].old[p].instance # 0

\* a pass over keyed siblings that come in another order than before
C2_Witness ==
  \E j \in Events :
    /\ log[j].op = "treelist"
    /\ IsPermutation(log[j].old, log[j].new)
    /\ AllKeyed(log[j].old) /\ AllKeyed(log[j].new)
    /\ Distinct(ExplicitKeys(log[j].old)) /\ Distinct(ExplicitKeys(log[j].new))
    /\ Len(log[j].old) >= 3
    /\ \A q \in 1..Len(log[j].new) :
         ExplicitKey(log[j].old[q]) # ExplicitKey(log[j].new[q])

\* the props the differ leaves out of every comparison
Reserved == {"key", "ref"}

\* the props of old that new no longer has, each to be unset
ExpectedUnset(old_props, new_props) ==
  LET gone == SelectSeq(old_props,
                LAMBDA e : e.k \notin Reserved /\ ~Has(new_props, e.k))
  IN  [i \in 1..Len(gone) |-> Entry(gone[i].k, NoneV)]

\* the props of new whose value is not == the old one (None when old has none)
ExpectedSet(old_props, new_props) ==
  SelectSeq(new_props,
    LAMBDA e : e.k \notin Reserved /\ ~PyEq(DictGet(old_props, e.k, NoneV), e.v))

\* event j is the call update(changes) the differ makes on instance id
IsDiffUpdate(j, id) ==
  j \in Events /\ log[j].op = "update" /\ log[j].src = "diff" /\ log[j].id = id

\* C3 (minimal changeset): when render_tree matches an old and a new node of
\* the same kind, the instance's update is called once with exactly (k, None)
\* for every prop of old other than key/ref that new lacks, followed by
\* (k, v) for every prop of new other than key/ref whose value is not == the
\* old value, and it is not called at all when that list is empty.
C3_MinimalChangeset ==
  /\ \A j \in Events :
       log[j].op = "match" =>
         IF ExpectedUnset(log[j].old_props, log[j].new_props)
              \o ExpectedSet(log[j].old_props, log[j].new_props) = <<>>
         THEN ~IsDiffUpdate(j + 1, log[j].id)
         ELSE /\ IsDiffUpdate(j + 1, log[j].id)
              /\ log[j + 1].changes
                   = ExpectedUnset(log[j].old_props, log[j].new_props)
                       \o ExpectedSet(log[j].old_props, log[j].new_props)
  /\ \A j \in Events :
       (log[j].op = "update" /\ log[j].src = "diff")
         => j > 1 /\ log[j - 1].op = "match" /\ log[j - 1].id = log[j].id

\* a matched node that loses one prop and changes another, and a matched
\* node whose declared key changes its value but not its text
C3_Witness ==
  /\ \E j \in Events :
       /\ log[j].op = "match"
       /\ ExpectedUnset(log[j].old_props, log[j].new_props) # <<>>
       /\ ExpectedSet(log[j].old_props, log[j].new_props) # <<>>
       /\ IsDiffUpdate(j + 1, log[j].id)
  /\ \E j \in Events :
       /\ log[j].op = "match"
       /\ DictGet(log[j].old_props, "key", NoneV)
            # DictGet(log[j].new_props, "key", NoneV)

\* the instance was destroyed (destroy was called on it)
Destroyed(i) == insts[i].destroys > 0

\* C4 as stated (removal destroys exactly once): an old sibling whose derived
\* key is absent from the new list has its instance destroyed by that
\* render_treelist call; no instance is destroyed twice and no destroyed
\* instance receives update.
C4_DestroyedOnce ==
  /\ \A j \in Events :
       log[j].op = "treelist" =>
         \A p \in 1..Len(log[j].old) :
           (/\ log[j].old[p].instance # 0
            /\ \A q \in 1..Len(log[j].new) :
                 KeysOf(log[j].new)[q] # KeysOf(log[j].old)[p])
             => \E i \in Span(j) :
                  log[i].op = "destroy" /\ log[i].id = log[j].old[p].instance
  /\ \A i \in 1..Len(insts) : insts[i].destroys <= 1
  /\ \A j \in Events : log[j].op = "update" => ~log[j].dead

\* C8 as stated (destroy unsubscribes): a destroyed Component has no handler
\* connected to any Observable, neither one of its props nor its state.
C8_DestroyUnsubscribes ==
  \A c \in 1..Len(insts) :
    (~insts[c].host /\ Destroyed(c))
      => \A o \in 1..Len(obs) : \A h \in 1..Len(obs[o].handlers) :
           obs[o].handlers[h].self # c

\* C9 as stated (destroyed is terminal): neither update nor render of a
\* Component is invoked once destroy has been called on it; a Component
\* constructs instances only while it reconciles what render returned, so it
\* then constructs no instance either.
C9_DestroyedIsTerminal ==
  \A j \in Events :
    (log[j].op \in {"render", "update"} /\ ~insts[log[j].id].host)
      => ~log[j].dead

\* the list-valued props of a node
ListProps(n) == {n.props[q] : q \in {q \in 1..Len(n.props) : n.props[q].v.t = "list"}}

\* the positions of the tree below a node list with the instance each is
\* bound to: the siblings, their nested node lists, and what a Component
\* sibling has rendered
RECURSIVE Bindings(_, _)
Bindings(nodes, path) ==
  UNION {
    {[path |-> path \o <<DigitStr(i)>>, instance |-> nodes[i].instance,
      form |-> NodeForm(nodes[i])]}
    \cup UNION {Bindings(e.v.items, path \o <<DigitStr(i), e.k>>) :
                  e \in ListProps(nodes[i])}
    \cup (IF nodes[i].instance # 0 /\ ~insts[nodes[i].instance].host
          THEN Bindings(insts[nodes[i].instance].subtree,
                        path \o <<DigitStr(i), "render">>)
          ELSE {})
    : i \in 1..Len(nodes)}

\* the current tree: the root Component and all below what it has rendered
CurrentTree ==
  IF insts = <<>> THEN {}
  ELSE {[path |-> <<>>, instance |-> 1, form |-> "root"]}
         \cup Bindings(insts[1].subtree, <<"render">>)

\* C10 as stated (one live instance per position, no orphan): every instance
\* that is constructed and not destroyed is bound to a node of the current
\* tree, every node of the current tree is bound to one such instance, no
\* two positions share an instance, and a child handed to a Component in a
\* node-list prop and placed by it in the tree it renders has one instance.
C10_OneLiveInstance ==
  /\ \A i \in 1..Len(insts) :
       ~Destroyed(i) => \E b \in CurrentTree : b.instance = i
  /\ \A b \in CurrentTree : b.instance # 0 /\ ~Destroyed(b.instance)
  /\ \A b, c \in CurrentTree : b.instance = c.instance => b.path = c.path
  /\ \A b \in CurrentTree :
       (b.path # <<>> /\ ~insts[b.instance].host)
         => \A e \in ListProps([props |-> insts[b.instance].props]) :
              \A l \in 1..Len(e.v.items) :
                \A c \in Bindings(insts[b.instance].subtree, <<>>) :
                  c.form = NodeForm(e.v.items[l])
                    => c.instance = e.v.items[l].instance

\* old sibling p and new sibling q of the call returning at j sit at the same
\* declared key, or at the same index when they declare none, with another
\* kind, and no new sibling has the derived key of p
KindChanged(j, p, q) ==
  /\ log[j].old[p].instance # 0
  /\ KeysOf(log[j].old)[p][1] = KeysOf(log[j].new)[q][1]
  /\ log[j].old[p].type # log[j].new[q].type
  /\ \A r \in 1..Len(log[j].new) : KeysOf(log[j].new)[r] # KeysOf(log[j].old)[p]

\* C5 (kind change forces recreate): when the node at a declared key or an
\* index changes kind between two renders of a sibling list, the old node is
\* not matched: its instance is destroyed and receives no update from the
\* differ, an instance of the new kind is constructed for the new node, and
\* the destroy comes before that construction.
C5_KindChangeRecreates ==
  \A j \in Events :
    log[j].op = "treelist" =>
      \A p \in 1..Len(log[j].old) : \A q \in 1..Len(log[j].new) :
        KindChanged(j, p, q) =>
          /\ log[j].ret[q].instance # log[j].old[p].instance
          /\ \A i \in Span(j) :
               log[i].op \in {"match", "update"} /\ log[i].id = log[j].old[p].instance
                 => log[i].op = "update" /\ log[i].src # "diff"
          /\ \E d, c \in Span(j) :
               /\ d < c
               /\ log[d].op = "destroy" /\ log[d].id = log[j].old[p].instance
               /\ log[c].op = "construct" /\ log[c].id = log[j].ret[q].instance
               /\ log[c].type = log[j].new[q].type

\* a keyed sibling that comes back with another kind, its old instance
\* destroyed in the pass
C5_Witness ==
  \E j \in Events :
    /\ log[j].op = "treelist"
    /\ \E p \in 1..Len(log[j].old) : \E q \in 1..Len(log[j].new) :
         /\ KindChanged(j, p, q)
         /\ Truthy(DictGet(log[j].old[p].props, "key", NoneV))
         /\ \E d \in Span(j) :
              log[d].op = "destroy" /\ log[d].id = log[j].old[p].instance

\* event j is the call of the ref callback cb with instance id
IsRef(j, cb, id) ==
  j \in Events /\ log[j].op = "ref" /\ log[j].cb = cb /\ log[j].id = id

\* event j is render_tree binding a node whose instance it has just constructed
IsFreshNode(j) == j \in Events /\ log[j].op = "node" /\ log[j].fresh

\* no entry of the dict or changeset is a reserved prop
NoReserved(d) == \A i \in 1..Len(d) : d[i].k \notin Reserved

\* C6 (ref): the ref of a node is called once for each instance constructed
\* for the node, with that instance and after its construction has completed;
\* it is not called when an instance is reused, and neither ref nor key is
\* passed to an instance as a prop or a changeset entry.
C6_RefOncePerConstruction ==
  /\ \A j \in Events :
       (IsFreshNode(j) /\ Truthy(DictGet(log[j].props, "ref", NoneV)))
         => IsRef(j - 1, DictGet(log[j].props, "ref", NoneV).f, log[j].id)
  /\ \A j \in Events :
       log[j].op = "ref" =>
         /\ IsFreshNode(j + 1) /\ log[j + 1].id = log[j].id
         /\ DictGet(log[j + 1].props, "ref", NoneV) = FnV(log[j].cb)
         /\ \E c \in 1..(j - 1) : log[c].op = "constructed" /\ log[c].id = log[j].id
         /\ \A i \in Events : (log[i].op = "ref" /\ log[i].id = log[j].id) => i = j
  /\ \A j \in Events :
       /\ log[j].op = "construct" => NoReserved(log[j].props)
       /\ log[j].op = "update" => NoReserved(log[j].changes)

\* a pass that constructs an instance for a node with a ref and calls it, and
\* reuses an instance for another node with a ref
C6_Witness ==
  /\ \E j \in Events : log[j].op = "ref" /\ IsFreshNode(j + 1)
  /\ \E j \in Events :
       /\ log[j].op = "node" /\ ~log[j].fresh
       /\ Truthy(DictGet(log[j].props, "ref", NoneV))

\* the Component holds Observable o: as the value of a prop or as its state
Holds(inst, o) ==
  inst.state = o \/ \E q \in 1..Len(inst.props) : inst.props[q].v = ObsV(o)

\* in the call chain lg, Component c is handed update([]) by a notification:
\* render is called with the props as they were, what it returns is
\* reconciled against the subtree stored before, and the result is stored
Rerendered(lg, ins, c) ==
  \E j \in 1..Len(lg) :
    /\ lg[j].op = "update" /\ lg[j].id = c
    /\ lg[j].changes = <<>> /\ lg[j].src = "notify"
    /\ lg[j + 1].op = "render" /\ lg[j + 1].id = c
    /\ lg[j + 1].props = lg[j].props
    /\ \E m \in (j + 3)..Len(lg) :
         /\ lg[m].op = "updated" /\ lg[m].id = c
         /\ lg[m - 1].op = "treelist" /\ lg[m - 1].from = j + 2
         /\ lg[m - 1].old = lg[j].subtree
         /\ lg[m].subtree = lg[m - 1].ret
         /\ (\A i \in (m + 1)..Len(lg) : ~(lg[i].op = "updated" /\ lg[i].id = c))
              => ins[c].subtree = lg[m].subtree

\* C7 as stated: when an Observable changes, every mounted Component that
\* holds it in its props or as its state when the change is made is handed
\* update([]) in the same call chain and re-renders as above.
C7_EveryHolder ==
  [][\A o \in 1..Len(obs) :
       obs'[o].value # obs[o].value =>
         \A c \in 1..Len(insts) :
           (/\ ~insts[c].host /\ insts[c].rendered_yet /\ ~Destroyed(c)
            /\ Holds(insts[c], o))
             => Rerendered(log', insts', c)]_vars

\* C7 (Observable-triggered re-render): when an Observable changes, every
\* mounted Component that holds it in its props or as its state, and still
\* holds it when the notification reaches it, is handed update([]) in the
\* same call chain: render runs with the props unchanged, the returned tree
\* is reconciled against the stored subtree, and the result is stored.
C7_NotifiedRerender ==
  [][\A o \in 1..Len(obs) :
       obs'[o].value # obs[o].value =>
         \A c \in 1..Len(insts) :
           (/\ ~insts[c].host /\ insts[c].rendered_yet /\ ~Destroyed(c)
            /\ Holds(insts[c], o) /\ Holds(insts'[c], o))
             => Rerendered(log', insts', c)]_vars

\* one notification re-renders two mounted Components, the second one not
\* the root
C7_Witness ==
  \E j, k \in Events :
    /\ j < k
    /\ log[j].op = "update" /\ log[j].src = "notify" /\ ~log[j].dead
    /\ log[k].op = "update" /\ log[k].src = "notify" /\ ~log[k].dead
    /\ log[j].id # log[k].id
    /\ Rerendered(log, insts, log[k].id)

\* the nodes in the resolved child slots of an instance with these props and
\* this rendered subtree: every node-list prop (children, image, popover)
\* and the subtree
SlotNodes(props, subtree) ==
  {subtree[i] : i \in 1..Len(subtree)}
    \cup UNION {{e.v.items[i] : i \in 1..Len(e.v.items)} :
                  e \in ListProps([props |-> props])}

\* C11 as stated (transitive destruction): a destroy of an instance destroys,
\* before it returns, the instance of every node in its resolved child
\* slots: the destroy of that instance follows in the same chain of destroy
\* calls.
C11_TransitiveDestruction ==
  \A d \in Events :
    log[d].op = "destroy" =>
      \A n \in SlotNodes(log[d].props, log[d].subtree) :
        n.instance # 0 =>
          \E e \in (d + 1)..Len(log) :
            /\ log[e].op = "destroy" /\ log[e].id = n.instance
            /\ \A i \in d..e : log[i].op = "destroy"

\* the node of a treeitem_to_key call declares a key
Keyed(e) == Has(e.v.props, "key")

\* C12 as stated (keying): the derived key of a sibling that declares a key
\* depends on that key and the kind only, not on the index, whatever the key
\* (0 and '' included); the derived key of a sibling without a key depends on
\* the index and the kind only; siblings of one kind with different declared
\* keys get different derived keys.
C12_Keying ==
  \A a, b \in Events :
    (log[a].op = "key" /\ log[b].op = "key" /\ log[a].v.type = log[b].v.type) =>
      /\ (Keyed(log[a]) /\ Keyed(log[b]))
           => (log[a].key = log[b].key
                 <=> PyEq(DictGet(log[a].v.props, "key", NoneV),
                          DictGet(log[b].v.props, "key", NoneV)))
      /\ (~Keyed(log[a]) /\ ~Keyed(log[b]))
           => (log[a].key = log[b].key <=> log[a].i = log[b].i)

\* the events of the log about instance c with one of these ops
EventsOf(c, ops) == {i \in Events : log[i].op \in ops /\ log[i].id = c}

\* the props a Component stores: all but the child__ ones, which belong to
\* the container it is placed in
StoredProps(props) == SelectSeq(props, LAMBDA e : ~IsChildProp(e.k))

\* the construction of Component c that starts at event j stores the props
\* and subscribes to the Observables among them, then instantiates the state
\* if the kind declares one, then calls before_first_render with the props,
\* then subscribes to the state, then renders
FirstPass(j, c) ==
  \E b, r \in Events :
    /\ j + 1 < b /\ b < r
    /\ log[j + 1].op = "update" /\ log[j + 1].id = c /\ log[j + 1].src = "init"
    /\ log[j + 1].changes = log[j].props
    /\ \A i \in (j + 2)..(b - 1) : log[i].op \in {"connect", "state"} /\ log[i].id = c
    /\ \A q \in 1..Len(StoredProps(log[j].props)) :
         IsObservable(StoredProps(log[j].props)[q].v)
           => \E i \in (j + 2)..(b - 1) :
                /\ log[i].op = "connect"
                /\ log[i].o = StoredProps(log[j].props)[q].v.o
    /\ log[b].op = "before_first_render" /\ log[b].id = c
    /\ log[b].props = StoredProps(log[j].props)
    /\ log[r].op = "render" /\ log[r].id = c /\ log[r].props = log[b].props
    /\ IF HasState(log[j].type)
       THEN /\ log[b - 1].op = "state" /\ log[b - 1].props = log[b].props
            /\ log[b].state = log[b - 1].o
            /\ r = b + 2
            /\ log[b + 1].op = "connect" /\ log[b + 1].id = c
            /\ log[b + 1].o = log[b].state
       ELSE r = b + 1 /\ log[b].state = 0

\* C13 (first-render ordering): the construction of a Component stores all
\* its props and subscribes to the Observables among them, then instantiates
\* the declared State, then calls before_first_render with the props, then
\* renders for the first time; the State is instantiated and
\* before_first_render called once per instance, in its construction only;
\* a rendered Component with a state is subscribed to it.
C13_FirstRenderOrder ==
  /\ \A j \in Events :
       (log[j].op = "construct" /\ ~IsGtkWidget(log[j].type))
         => FirstPass(j, log[j].id)
  /\ \A i \in Events :
       log[i].op \in {"state", "before_first_render"}
         => /\ EventsOf(log[i].id, {log[i].op}) = {i}
            /\ \E j \in 1..(i - 1) : log[j].op = "construct" /\ log[j].id = log[i].id
            /\ log[i].op = "state" => HasState(insts[log[i].id].type)
  /\ \A c \in 1..Len(insts) :
       (~insts[c].host /\ insts[c].rendered_yet /\ HasState(insts[c].type))
         => /\ insts[c].state # 0
            /\ Cardinality({h \in 1..Len(obs[insts[c].state].handlers) :
                             obs[insts[c].state].handlers[h].self = c}) = 1

\* a Component with a declared State and one with an Observable prop are
\* constructed, and the one with the State is re-rendered later
C13_Witness ==
  /\ \E c \in 1..Len(insts) :
       /\ ~insts[c].host /\ insts[c].state # 0
       /\ \E i \in Events :
            log[i].op = "update" /\ log[i].id = c /\ log[i].src = "notify"
  /\ \E c \in 1..Len(insts) : ~insts[c].host /\ c # 1 /\ insts[c].state = 0

\* the handlers of Component c connected to Observable o
HandlersOf(c, o) == {h \in 1..Len(obs[o].handlers) : obs[o].handlers[h].self = c}

\* the prop keys of an instance whose value is Observable o
KeysHolding(inst, o) == {q \in 1..Len(inst.props) : inst.props[q].v = ObsV(o)}

\* a Component that has rendered and was not destroyed
Mounted(c) == ~insts[c].host /\ insts[c].rendered_yet /\ ~Destroyed(c)

\* C14 as stated (subscription bookkeeping): after every update of a mounted
\* Component its callback is connected exactly once to each Observable that
\* is a value of its props, under one key or several, and not at all to an
\* Observable that is not, its state apart.
C14_SubscribedOnce ==
  \A c \in 1..Len(insts) : \A o \in 1..Len(obs) :
    (Mounted(c) /\ insts[c].state # o)
      => Cardinality(HandlersOf(c, o))
           = IF KeysHolding(insts[c], o) # {} THEN 1 ELSE 0

(***************************************************************************)
(* C15  child arity                                                        *)
(***************************************************************************)
\* the widgets the items at the positions S of a children update contribute
Widgets(e, S) == UNION {{<<i, k>> : k \in 1..Len(e.widgets[i])} : i \in S}

\* the positions of a children update marked (or not) as header
HeaderItems(e) == {i \in 1..Len(e.items) : IsHeader(e.items[i])}
ContentItems(e) == {i \in 1..Len(e.items) : ~IsHeader(e.items[i])}

\* the children update logged at j raised the structural error
ArityError(j) ==
  /\ j < Len(log)
  /\ log[j + 1].op = "raise"
  /\ log[j + 1].exc = "ChildrenFormatException"

\* C15 as stated (child arity): a children update on a Gtk.Bin kind succeeds
\* exactly when the resolved children contribute exactly one widget, and a
\* children update on a childless kind raises ChildrenFormatException
\* exactly when they contribute at least one widget.
C15_OneWidget ==
  \A j \in Events :
    log[j].op = "children" =>
      LET n == Cardinality(Widgets(log[j], 1..Len(log[j].items)))
      IN  /\ IsBin(log[j].type) => (~ArityError(j) <=> n = 1)
          /\ (~IsBin(log[j].type) /\ ~IsBox(log[j].type)) =>
               (ArityError(j) <=> n >= 1)

\* C15 amended (child arity): a children update on a Gtk.Bin kind succeeds
\* exactly when the children counted contribute exactly one widget, where a
\* Gtk.Window counts only the children not marked child__is_header and
\* additionally requires that the marked ones contribute at most one widget;
\* it raises ChildrenFormatException otherwise, also for no widget.  A
\* children update on a childless kind raises ChildrenFormatException
\* exactly when the children contribute at least one widget.
C15_ChildArity ==
  \A j \in Events :
    log[j].op = "children" =>
      LET e == log[j]
          all == Cardinality(Widgets(e, 1..Len(e.items)))
          content == Cardinality(Widgets(e, ContentItems(e)))
          headers == Cardinality(Widgets(e, HeaderItems(e)))
      IN  /\ (IsBin(e.type) /\ ~IsWindow(e.type)) =>
               (~ArityError(j) <=> all = 1)
          /\ IsWindow(e.type) =>
               (~ArityError(j) <=> (content = 1 /\ headers <= 1))
          /\ (~IsBin(e.type) /\ ~IsBox(e.type)) =>
               (ArityError(j) <=> all >= 1)

\* C15 witness: the children of a Button are updated with no widget, which
\* raises, and those of a Window with a header and one other widget, which
\* succeeds
C15_Witness ==
  /\ \E j \in Events :
       /\ log[j].op = "children" /\ log[j].type = "Button"
       /\ Widgets(log[j], 1..Len(log[j].items)) = {} /\ ArityError(j)
  /\ \E j \in Events :
       /\ log[j].op = "children" /\ IsWindow(log[j].type)
       /\ Cardinality(Widgets(log[j], 1..Len(log[j].items))) = 2
       /\ ~ArityError(j)

(***************************************************************************)
(* C17  kind mismatch in a direct render_tree                              *)
(***************************************************************************)
\* the instances bound in a list of nodes: those of the nodes, of their
\* resolved children and of what their Components rendered
RECURSIVE InstancesIn(_)
InstancesIn(nodes) ==
  UNION {{nodes[i].instance}
           \cup InstancesIn(ListOrEmpty(DictGet(nodes[i].props, "children", NoneV)))
           \cup InstancesIn(insts[nodes[i].instance].subtree) :
         i \in 1..Len(nodes)}

\* the direct call render_tree(old, new) logged at d is between two kinds
\* and returned its node at r
KindMismatch(d, r) ==
  /\ log[d].op = "direct" /\ log[r].op = "returned" /\ d < r
  /\ log[d].old.type # log[d].new.type

\* C17 as stated (clean construction on kind mismatch): when render_tree(old,
\* new) is called with an old node of another kind than new, no instance
\* that existed before the call is matched or updated by it, the instances
\* of old and of its children are destroyed, and no instance bound in the
\* returned node's subtree is destroyed.
C17_CleanConstruction ==
  \A d, r \in Events :
    KindMismatch(d, r) =>
      /\ \A j \in (d + 1)..(r - 1) :
           log[j].op \in {"match", "update"} => log[j].id > log[d].n
      /\ \A id \in {log[d].old.instance}
                     \cup InstancesIn(ListOrEmpty(
                            DictGet(log[d].old.props, "children", NoneV))) :
           insts[id].destroys > 0
      /\ \A id \in InstancesIn(<<log[r].node>>) : insts[id].destroys = 0

(***************************************************************************)
(* C16  error propagation without recovery                                 *)
(***************************************************************************)
\* the Component.update calls in progress when event i is logged: begun
\* before i and not yet at their updated notification
OpenPasses(i) ==
  {u \in 1..(i - 1) :
     /\ log[u].op = "update" /\ ~insts[log[u].id].host
     /\ ~\E j \in (u + 1)..(i - 1) :
           log[j].op = "updated" /\ log[j].id = log[u].id}

\* the update of a host instance logged at j completed before i and is the
\* last one of that instance before i
LastHostUpdate(j, i) ==
  /\ log[j].op = "update" /\ insts[log[j].id].host
  /\ \E q \in (j + 1)..(i - 1) : log[q].op = "updated" /\ log[q].id = log[j].id
  /\ ~\E q \in (j + 1)..(i - 1) : log[q].op = "update" /\ log[q].id = log[j].id

\* the structural error raised at i inside an update pass reaches the
\* caller of the outermost update
StructuralError(i) ==
  /\ log[i].op = "raise" /\ log[i].exc = "ChildrenFormatException"
  /\ OpenPasses(i) # {}

\* C16 (error propagation without recovery): a ChildrenFormatException
\* raised during a Component's update pass is next seen by the caller of the
\* outermost update (the signal machinery, which prints it): no enclosing
\* frame does anything more.  At that point every Component whose update
\* was in progress still stores the subtree it had when its update began
\* and has emitted no updated notification, every instance destroyed
\* earlier in the pass is still destroyed, and every host instance updated
\* earlier in the pass still stores the props it was given.
C16_ErrorPropagation ==
  \A i \in Events :
    StructuralError(i) =>
      /\ i < Len(log)
      /\ log[i + 1].op = "printed" /\ log[i + 1].exc = log[i].exc
      /\ \A u \in OpenPasses(i) :
           log[i + 1].insts[log[u].id].subtree = log[u].subtree
      /\ \A j \in 1..(i - 1) :
           /\ log[j].op = "destroy" => log[i + 1].insts[log[j].id].destroys > 0
           /\ LastHostUpdate(j, i) =>
                \A q \in 1..Len(log[j].changes) :
                  DictGet(log[i + 1].insts[log[j].id].props,
                          log[j].changes[q].k, StrV("unset"))
                    = log[j].changes[q].v

\* C16 witness: the error is raised inside the update of a Slot that runs
\* inside the update of ErrApp, after that pass destroyed an instance and
\* completed the update of a Label
C16_Witness ==
  \E i \in Events :
    /\ StructuralError(i)
    /\ Cardinality(OpenPasses(i)) = 2
    /\ \E u \in OpenPasses(i) :
         /\ \E j \in (u + 1)..(i - 1) : log[j].op = "destroy"
         /\ \E j \in (u + 1)..(i - 1) :
              LastHostUpdate(j, i) /\ log[j].src = "diff"

(***************************************************************************)
(* C19  run to completion                                                  *)
(***************************************************************************)
\* the events of operation op strictly between u and j
Between(u, j, op) == {q \in (u + 1)..(j - 1) : log[q].op = op}

\* the update begun at u completes at j: j is its updated notification and
\* every update begun in between has completed in between
CompletesAt(u, j) ==
  /\ log[j].op = "updated" /\ log[j].id = log[u].id
  /\ Cardinality(Between(u, j, "update")) = Cardinality(Between(u, j, "updated"))

\* C19 (run to completion): in the main application, whose render
\* functions, hooks and ref callbacks notify nothing, the processing of one
\* assignment ends with every update pass it started completed: each
\* update, of a Component or of a host instance, nested ones included,
\* reaches its end before control is back at the notifier, after one render
\* call per Component pass.
C19_RunToCompletion ==
  \A u \in Events :
    log[u].op = "update" =>
      /\ \E j \in (u + 1)..Len(log) : CompletesAt(u, j)
      /\ ~insts[log[u].id].host =>
           \E j \in (u + 1)..Len(log) :
             /\ CompletesAt(u, j)
             /\ Cardinality({q \in Between(u, j, "render") :
                               log[q].id = log[u].id}) = 1

\* C19 witness: one notification re-renders two subscribed Components, and
\* one of these passes contains the update of a nested Component
C19_Witness ==
  \E e \in Events :
    /\ log[e].op = "emit"
    /\ \E u1, u2 \in (e + 1)..Len(log) :
         /\ u1 < u2
         /\ log[u1].op = "update" /\ log[u1].src = "notify"
         /\ log[u2].op = "update" /\ log[u2].src = "notify"
         /\ \E j \in (u1 + 1)..(u2 - 1) : CompletesAt(u1, j)
         /\ \E q \in (u1 + 1)..(u2 - 1) :
              /\ log[q].op = "update" /\ ~insts[log[q].id].host
              /\ log[q].src # "notify"

(***************************************************************************)
(* C18  unguarded reentrancy                                               *)
(***************************************************************************)
\* the Component.update calls in progress when event s is logged, an
\* update of the same Component nested in them or not
PassesOpen(s) ==
  {u \in 1..(s - 1) :
     /\ log[u].op = "update" /\ ~insts[log[u].id].host
     /\ ~\E j \in (u + 1)..(s - 1) : CompletesAt(u, j)}

\* Component c is subscribed to Observable o
Subscribed(c, o) ==
  \E q \in 1..Len(obs[o].handlers) : obs[o].handlers[q].self = c

\* the assignment logged at s changes the value and notifies
Notifies(s) ==
  log[s].op = "set" /\ s < Len(log) /\ log[s + 1].op = "emit"

\* the update of c begun at n is the handler called by the emission at e,
\* with nothing but completed handlers before it
NestedStart(e, n, c) ==
  /\ log[n].op = "update" /\ log[n].id = c /\ log[n].src = "notify"
  /\ Cardinality(Between(e, n, "update")) = Cardinality(Between(e, n, "updated"))

\* C18 (unguarded reentrancy): when an Observable that Component C is
\* subscribed to notifies while an update of C is in progress, a nested
\* update of C starts inside the emission, completes, and only then does
\* the outer update go on to its own end; nothing is raised or deferred.
C18_Reentrancy ==
  \A s \in Events :
    \A u \in PassesOpen(s) :
      (Notifies(s) /\ Subscribed(log[u].id, log[s].o)) =>
        \E n \in (s + 2)..Len(log) :
          /\ NestedStart(s + 1, n, log[u].id)
          /\ \E j \in (n + 1)..Len(log) :
               /\ CompletesAt(n, j)
               /\ \E j2 \in (j + 1)..Len(log) : CompletesAt(u, j2)
               /\ \A q \in s..j : log[q].op \notin {"raise", "printed"}

\* C18 witness: the render function of ReApp assigns to its model during an
\* update of ReApp, and in the nested update this starts a ref callback
\* assigns to another Observable of ReApp, which starts an update nested in
\* the nested one
C18_Witness ==
  \E s1, s2 \in Events :
    /\ 1 < s1 /\ s1 < s2 /\ Notifies(s1) /\ Notifies(s2)
    /\ log[s1 - 1].op = "render" /\ log[s2 - 1].op = "ref"
    /\ \E u \in PassesOpen(s1) : Subscribed(log[u].id, log[s1].o)
    /\ Cardinality({u \in PassesOpen(s2) : Subscribed(log[u].id, log[s2].o)}) = 2

(***************************************************************************)
(* C20  model change notification                                          *)
(***************************************************************************)
\* the events of operation op about Observable o
EventsAbout(o, op) == {q \in Events : log[q].op = op /\ log[q].o = o}

\* the Components holding Observable m as a prop
Holders(m) == {c \in 1..Len(insts) : ~insts[c].host /\ Holds(insts[c], m)}

\* the assignment at the head of the log is to a field of model m
FieldAssigned(m) ==
  /\ log # <<>> /\ log[1].op = "set"
  /\ \E q \in 1..Len(obs[log[1].o].handlers) :
       obs[log[1].o].handlers[q].model = m

\* C20 (model change notification): an assignment to the value of an
\* ObservableValue field of an ObservableModel emits the model's change
\* notification exactly once and re-renders every Component holding the
\* model as a prop exactly once when the value differs from the current one,
\* and emits nothing and re-renders nothing when it is equal.
C20_ModelNotification ==
  \A m \in 1..Len(obs) :
    FieldAssigned(m) =>
      IF log[1].value # log[1].old
      THEN /\ Cardinality(EventsAbout(m, "emit")) = 1
           /\ \A c \in Holders(m) :
                /\ Cardinality(EventsOf(c, {"render"})) = 1
                /\ Cardinality({q \in EventsOf(c, {"update"}) :
                                  log[q].src = "notify"}) = 1
      ELSE /\ \A q \in Events : log[q].op \notin {"emit", "update", "render"}
           /\ Len(log) = 1

\* C20 witness: a field of the model held by ModelApp and by its View is
\* assigned another value: both re-render
C20_Witness ==
  \E m \in 1..Len(obs) :
    /\ FieldAssigned(m)
    /\ log[1].value # log[1].old
    /\ Cardinality(Holders(m)) = 2
    /\ \A c \in Holders(m) : EventsOf(c, {"render"}) # {}

(***************************************************************************)
(* C21  host containers in sync with their children                        *)
(***************************************************************************)
\* the live Gtk.Box instances
LiveBoxes ==
  {b \in 1..Len(insts) :
     insts[b].host /\ IsBox(insts[b].type) /\ insts[b].destroys = 0}

\* C21 as stated (host containers stay in sync): in every state, the widgets
\* attached to a live Gtk.Box are, in order, the concatenation of
\* get_widgets() over the nodes of its current resolved children.
C21_BoxInSync ==
  \A b \in LiveBoxes :
    insts[b].attached =
      WidgetsOf(World, ListOrEmpty(DictGet(insts[b].props, "children", NoneV)))

(***************************************************************************)
(* C22  re-entrant passes and the instances they construct                 *)
(***************************************************************************)
\* the assignment at s re-enters the update of a Component begun at u, the
\* outermost update of the call chain, while that update is inside its diff
ReentersDiff(s, u) ==
  /\ u \in PassesOpen(s) /\ PassesOpen(u) = {}
  /\ Notifies(s) /\ Subscribed(log[u].id, log[s].o)
  /\ log[s - 1].op # "render"

\* C22 as stated (re-entrant passes do not leak or double-destroy): when a
\* notification re-enters C.update while the outer pass is inside its diff,
\* then once the outer pass has completed no instance has been destroyed
\* more than once and every instance constructed during the outer pass, by
\* it or by the nested pass, is bound in C's stored subtree or destroyed.
C22_NoLeak ==
  \A s, u \in Events :
    ReentersDiff(s, u) =>
      /\ \A i \in 1..Len(insts) : insts[i].destroys <= 1
      /\ \A q \in (u + 1)..Len(log) :
           log[q].op = "construct" =>
             \/ log[q].id \in InstancesIn(insts[log[u].id].subtree)
             \/ insts[log[q].id].destroys > 0

(***************************************************************************)
(* C23  ObservableList item subscriptions                                  *)
(***************************************************************************)
\* the items the item-changed callback of list l is subscribed to
SubscribedItems(l) ==
  {i \in ListItems : \E q \in 1..Len(obs[i].handlers) : obs[i].handlers[q].model = l}

\* the items list l contains
Contained(l) == {obs[l].value[q] : q \in 1..Len(obs[l].value)}

\* C23 as stated (ObservableList item subscriptions): after any sequence of
\* append, pop, clear and assignments to value, the item-changed callback
\* of the list is subscribed to exactly the items the list contains, and an
\* operation that changed the contents of the list emitted the list's
\* change notification.
C23_ItemSubscriptions ==
  /\ SubscribedItems(3) = Contained(3)
  /\ \A q \in Events :
       (log[q].op = "list" /\ log[q].old # obs[log[q].o].value) =>
         \E e \in Events : log[e].op = "emit" /\ log[e].o = log[q].o
====
